---- MODULE Spec2Model ----
(***************************************************************************)
(* A model of lib/template_engine.py: Template.__init__ compiles a         *)
(* template text into the lines of a Python function (CodeBuilder), exec   *)
(* turns the lines into render_function, and Template.render runs it on    *)
(* the merged context.                                                     *)
(*                                                                         *)
(* Every Python string is a sequence of one-character strings, so that     *)
(* the regular expression of _tokenize, the slices, strip and split are    *)
(* computed character by character.  The generated source is kept as a     *)
(* sequence of lines [indent, op, ...], one record per add_line call.      *)
(***************************************************************************)
EXTENDS Integers, Sequences, FiniteSets, TLC

VARIABLES
    template,         \* the `template` argument of Template.__init__
    ctor_contexts,    \* the `*contexts` arguments of Template.__init__
    context,          \* self.context
    all_vars,         \* self.all_vars
    loop_vars,        \* self.loop_vars
    code,             \* code.code, the lines of the main CodeBuilder
    vars_code,        \* the lines of the section vars_code
    indent_level,     \* code.indent_level
    buffered,         \* the local list `buffered`
    ops_stack,        \* the local list `ops_stack`
    tokens,           \* the local list `tokens`
    ti,               \* position of the for loop over tokens (1-based)
    pc,               \* "parsing", "ready" (constructed) or "failed" (raised)
    error,            \* the exception __init__ raised, if any
    render_function,  \* self._render_function: the executed source lines
    calls             \* the render calls made so far, each [ctx, rc, res]: the
                      \* argument, the local render_context, and the outcome

vars == <<template, ctor_contexts, context, all_vars, loop_vars, code,
          vars_code, indent_level, buffered, ops_stack, tokens, ti, pc,
          error, render_function, calls>>

(***************************************************************************)
(* Strings                                                                 *)
(***************************************************************************)
Chars(s) == [i \in 1..Len(s) |-> SubSeq(s, i, i)]

Range(s) == {s[i] : i \in 1..Len(s)}

MinOf(S) == CHOOSE x \in S : \A y \in S : x <= y

MaxOf(S) == CHOOSE x \in S : \A y \in S : x >= y

\* str.startswith(prefix)
StartsWith(s, prefix) ==
    /\ Len(s) >= Len(prefix)
    /\ SubSeq(s, 1, Len(prefix)) = prefix

\* the characters str.strip() and str.split() treat as white space
Whitespace == {" ", "\n", "\t"}

\* str.strip()
Strip(s) ==
    LET idx == {i \in 1..Len(s) : s[i] \notin Whitespace}
    IN  IF idx = {} THEN <<>> ELSE SubSeq(s, MinOf(idx), MaxOf(idx))

\* str.split(): the maximal runs of non-white-space characters
RECURSIVE SplitWords(_)
SplitWords(s) ==
    LET idx == {i \in 1..Len(s) : s[i] \notin Whitespace}
    IN  IF idx = {} THEN <<>>
        ELSE LET b == MinOf(idx)
                 ends == {j \in b..Len(s) : j = Len(s) \/ s[j + 1] \in Whitespace}
                 e == MinOf(ends)
             IN  <<SubSeq(s, b, e)>> \o SplitWords(SubSeq(s, e + 1, Len(s)))

\* str.split(sep) for a one-character separator: empty pieces are kept
RECURSIVE SplitOn(_, _)
SplitOn(s, sep) ==
    LET idx == {i \in 1..Len(s) : s[i] = sep}
    IN  IF idx = {} THEN <<s>>
        ELSE LET i == MinOf(idx)
             IN  <<SubSeq(s, 1, i - 1)>> \o SplitOn(SubSeq(s, i + 1, Len(s)), sep)

\* token[2:-2]
Inner(token) == SubSeq(token, 3, Len(token) - 2)

\* sep.join(parts)
RECURSIVE Join(_, _)
Join(parts, sep) ==
    IF parts = <<>> THEN <<>>
    ELSE IF Len(parts) = 1 THEN parts[1]
    ELSE parts[1] \o sep \o Join(Tail(parts), sep)

(***************************************************************************)
(* Template._tokenize: re.split(r"(?s)({{.*?}}|{%.*?%}|{#.*?#})", text)    *)
(***************************************************************************)
\* the character that, followed by "}", closes a tag opened by "{" + c
Closer(c) == IF c = "{" THEN "}" ELSE c

\* the last index of the match of the pattern at position i, or 0: the three
\* alternatives open with different characters, and .*? stops at the first
\* closing pair at or after i + 2
MatchEnd(t, i) ==
    IF i + 3 <= Len(t) /\ t[i] = "{" /\ t[i + 1] \in {"{", "%", "#"}
    THEN LET js == {j \in (i + 2)..(Len(t) - 1) :
                        t[j] = Closer(t[i + 1]) /\ t[j + 1] = "}"}
         IN  IF js = {} THEN 0 ELSE MinOf(js) + 1
    ELSE 0

RECURSIVE SplitFrom(_, _)
SplitFrom(t, from) ==
    LET starts == {i \in from..Len(t) : MatchEnd(t, i) # 0}
    IN  IF starts = {} THEN <<SubSeq(t, from, Len(t))>>
        ELSE LET i == MinOf(starts)
                 e == MatchEnd(t, i)
             IN  <<SubSeq(t, from, i - 1), SubSeq(t, i, e)>> \o SplitFrom(t, e + 1)

tokenize(t) == SplitFrom(t, 1)

(***************************************************************************)
(* Template._variable and Template._expr_code                              *)
(***************************************************************************)
\* re.match(r"", name): the empty pattern matches every string
NameMatches(name) == TRUE

\* _variable(name, vars_set): the set after the call; the call raises when
\* the name does not match
variable(name, vars_set) == vars_set \cup {name}

\* The generated expression: "c_<name>", "c_<func>(<code>)" or
\* "do_dots(<code>, '<d1>', ...)".
NameCode(name) == [e |-> "name", id |-> name]

CallCode(func, arg) == [e |-> "call", func |-> func, arg |-> arg]

DotsCode(base, path) == [e |-> "dots", base |-> base, path |-> path]

RECURSIVE PipeCode(_, _)
PipeCode(base, funcs) ==
    IF funcs = <<>> THEN base
    ELSE PipeCode(CallCode(Head(funcs), base), Tail(funcs))

\* the branch of _expr_code for an expression with no "|"
expr_code_nopipe(expr) ==
    IF "." \in Range(expr)
    THEN LET dots == SplitOn(expr, ".")
         IN  DotsCode(NameCode(dots[1]), Tail(dots))
    ELSE NameCode(expr)

expr_code(expr) ==
    IF "|" \in Range(expr)
    THEN LET pipes == SplitOn(expr, "|")
         IN  PipeCode(expr_code_nopipe(pipes[1]), Tail(pipes))
    ELSE expr_code_nopipe(expr)

\* the names _expr_code hands to _variable(..., self.all_vars)
expr_vars(expr) ==
    IF "|" \in Range(expr)
    THEN LET pipes == SplitOn(expr, "|")
         IN  {SplitOn(pipes[1], ".")[1]} \cup Range(Tail(pipes))
    ELSE {SplitOn(expr, ".")[1]}

(***************************************************************************)
(* CodeBuilder                                                             *)
(***************************************************************************)
INDENT_STEP == 4

\* The builder state of __init__ is the record
\*   [code, indent_level, buffered, ops_stack, all_vars, loop_vars, error].
NoError == [type |-> "none", msg |-> "", thing |-> <<>>]

\* CodeBuilder.add_line: the line is stored with the current indentation
add_line(b, stmt) ==
    [b EXCEPT !.code = Append(@, [indent |-> b.indent_level, stmt |-> stmt])]

\* CodeBuilder.indent
indent(b) == [b EXCEPT !.indent_level = @ + INDENT_STEP]

\* CodeBuilder.dedent
dedent(b) == [b EXCEPT !.indent_level = @ - INDENT_STEP]

\* Template._syntax_error
syntax_error(b, msg, thing) ==
    [b EXCEPT !.error = [type |-> "TemplateSyntaxError", msg |-> msg, thing |-> thing]]

\* the entries of `buffered`: "to_str(<code>)" and repr(token)
ToStrCode(c) == [e |-> "to_str", arg |-> c]

ReprCode(token) == [e |-> "repr", text |-> token]

\* flush_output, the closure of __init__
flush_output(b) ==
    LET b1 == IF Len(b.buffered) = 1
              THEN add_line(b, [op |-> "append", arg |-> b.buffered[1]])
              ELSE IF Len(b.buffered) > 1
              THEN add_line(b, [op |-> "extend", args |-> b.buffered])
              ELSE b
    IN  [b1 EXCEPT !.buffered = <<>>]

(***************************************************************************)
(* Template.__init__: the body of the loop over the tokens                 *)
(***************************************************************************)
IfWord == Chars("if")

ForWord == Chars("for")

InWord == Chars("in")

EndWord == Chars("end")

\* the names of a set that _variable rejects
Rejected(names) == {n \in names : ~NameMatches(n)}

\* self._expr_code(expr) with its calls of _variable on self.all_vars
with_expr_vars(b, expr) ==
    IF Rejected(expr_vars(expr)) # {}
    THEN syntax_error(b, "Not a valid variable name",
                      CHOOSE n \in Rejected(expr_vars(expr)) : TRUE)
    ELSE [b EXCEPT !.all_vars = @ \cup expr_vars(expr)]

\* the branch for words[0] == 'if'
if_tag(b, token, words) ==
    IF Len(words) # 2 THEN syntax_error(b, "Don't understand if", token)
    ELSE LET b1 == [b EXCEPT !.ops_stack = Append(@, IfWord)]
             b2 == with_expr_vars(b1, words[2])
         IN  IF b2.error # NoError THEN b2
             ELSE indent(add_line(b2, [op |-> "if", cond |-> expr_code(words[2])]))

\* the branch for words[0] == 'for'
for_tag(b, token, words) ==
    IF Len(words) # 4 \/ words[3] # InWord
    THEN syntax_error(b, "Don't understand for", token)
    ELSE LET b1 == [b EXCEPT !.ops_stack = Append(@, ForWord)]
         IN  IF ~NameMatches(words[2])
             THEN syntax_error(b1, "Not a valid variable name", words[2])
             ELSE LET b2 == [b1 EXCEPT !.loop_vars = variable(words[2], @)]
                      b3 == with_expr_vars(b2, words[4])
                  IN  IF b3.error # NoError THEN b3
                      ELSE indent(add_line(b3, [op |-> "for", var |-> words[2],
                                                iter |-> expr_code(words[4])]))

\* end_tag without the comparison of the popped kind with the tag's kind
end_tag_unchecked(b, token, words) ==
    IF Len(words) # 1 THEN syntax_error(b, "Don't understand end", token)
    ELSE IF b.ops_stack = <<>> THEN syntax_error(b, "Too many ends", token)
    ELSE dedent([b EXCEPT !.ops_stack = SubSeq(@, 1, Len(@) - 1)])

\* the branch for words[0].startswith('end')
end_tag(b, token, words) ==
    IF Len(words) # 1 THEN syntax_error(b, "Don't understand end", token)
    ELSE LET end_what == SubSeq(words[1], 4, Len(words[1]))
         IN  IF b.ops_stack = <<>> THEN syntax_error(b, "Too many ends", token)
             ELSE LET start_what == b.ops_stack[Len(b.ops_stack)]
                      b1 == [b EXCEPT !.ops_stack = SubSeq(@, 1, Len(@) - 1)]
                  IN  IF start_what # end_what
                      THEN syntax_error(b1, "Mismatched end tag", end_what)
                      ELSE dedent(b1)

\* the branch for a token that starts with '{%'; words[0] of an empty list
\* raises IndexError
action_tag(b, token) ==
    LET words == SplitWords(Strip(Inner(token)))
    IN  IF words = <<>>
        THEN [b EXCEPT !.error = [type |-> "IndexError", msg |-> "list index out of range",
                                  thing |-> token]]
        ELSE IF words[1] = IfWord THEN if_tag(b, token, words)
        ELSE IF words[1] = ForWord THEN for_tag(b, token, words)
        ELSE IF StartsWith(words[1], EndWord) THEN end_tag(b, token, words)
        ELSE syntax_error(b, "Don't understand tag", words[1])

\* process_token with the buffered output left unflushed at an action tag
process_token_unflushed(b, token) ==
    IF StartsWith(token, Chars("{#")) THEN b
    ELSE IF StartsWith(token, Chars("{{"))
    THEN LET expr == Strip(Inner(token))
         IN  [with_expr_vars(b, expr) EXCEPT
                 !.buffered = Append(@, ToStrCode(expr_code(expr)))]
    ELSE IF StartsWith(token, Chars("{%")) THEN action_tag(b, token)
    ELSE IF token # <<>> THEN [b EXCEPT !.buffered = Append(@, ReprCode(token))]
    ELSE b

\* one pass of `for token in tokens`
process_token(b, token) ==
    IF StartsWith(token, Chars("{#")) THEN b
    ELSE IF StartsWith(token, Chars("{{"))
    THEN LET expr == Strip(Inner(token))
             b1 == with_expr_vars(b, expr)
         IN  IF b1.error # NoError THEN b1
             ELSE [b1 EXCEPT !.buffered = Append(@, ToStrCode(expr_code(expr)))]
    ELSE IF StartsWith(token, Chars("{%")) THEN action_tag(flush_output(b), token)
    ELSE IF token # <<>> THEN [b EXCEPT !.buffered = Append(@, ReprCode(token))]
    ELSE b

(***************************************************************************)
(* The generated source and its compilation by exec (get_globals)          *)
(***************************************************************************)
\* CodeBuilder.__str__: the section vars_code is printed in its place
Source(c, v) ==
    LET F[i \in 0..Len(c)] ==
            IF i = 0 THEN <<>>
            ELSE IF c[i].stmt.op = "section" THEN F[i - 1] \o v
            ELSE Append(F[i - 1], c[i])
    IN  F[Len(c)]

\* the characters of a Python identifier
IdentChars ==
    Range(Chars("abcdefghijklmnopqrstuvwxyzABCDEFGHIJKLMNOPQRSTUVWXYZ0123456789_"))

\* "c_" + name is one Python identifier.  A name that holds another
\* character is read by Python as something else than one name; for the
\* characters "{", "}", "#", "%", "$" and white space, the only ones the
\* names of the templates below can hold, the generated line is a syntax error.
IdentOK(name) == Range(name) \subseteq IdentChars

\* the names c_<name> written in a generated expression
RECURSIVE ExprIds(_)
ExprIds(e) ==
    IF e.e = "name" THEN {e.id}
    ELSE IF e.e = "call" THEN {e.func} \cup ExprIds(e.arg)
    ELSE IF e.e = "dots" THEN ExprIds(e.base)
    ELSE IF e.e = "to_str" THEN ExprIds(e.arg)
    ELSE {}

\* the names c_<name> written in a generated line
StmtIds(s) ==
    IF s.op = "fetch" THEN {s.var}
    ELSE IF s.op = "append" THEN ExprIds(s.arg)
    ELSE IF s.op = "extend" THEN UNION {ExprIds(s.args[i]) : i \in 1..Len(s.args)}
    ELSE IF s.op = "if" THEN ExprIds(s.cond)
    ELSE IF s.op = "for" THEN {s.var} \cup ExprIds(s.iter)
    ELSE {}

\* the lines that end with ":" and open a block
Opens(s) == s.op \in {"def", "if", "for"}

\* the lines Python's compiler rejects: a line that holds an invalid name, and
\* the line after a block opener when it is not indented deeper (or is missing)
BadNameLines(src) ==
    {i \in 1..Len(src) : \E n \in StmtIds(src[i].stmt) : ~IdentOK(n)}

EmptyBlockLines(src) ==
    {i + 1 : i \in {k \in 1..Len(src) :
                      /\ Opens(src[k].stmt)
                      /\ (k = Len(src) \/ src[k + 1].indent <= src[k].indent)}}

\* exec(python_source): the error of the first rejected line; on one line the
\* missing indentation is seen before the line's names are read
exec_error(src) ==
    LET bad == BadNameLines(src) \cup EmptyBlockLines(src)
    IN  IF bad = {} THEN NoError
        ELSE LET i == MinOf(bad)
             IN  IF i \in EmptyBlockLines(src)
                 THEN [type |-> "IndentationError", msg |-> "expected an indented block",
                       thing |-> <<>>]
                 ELSE [type |-> "SyntaxError", msg |-> "invalid syntax", thing |-> <<>>]

(***************************************************************************)
(* Python values of a context, and the operations rendering applies        *)
(***************************************************************************)
StrV(s) == [t |-> "str", s |-> s]

ListV(items) == [t |-> "list", items |-> items]

TupleV(items) == [t |-> "tuple", items |-> items]

\* a dict; `map` is a function from keys (strings) to values
DictV(map) == [t |-> "dict", map |-> map]

\* an instance of a class with attributes, such as the tests' ClassWithAttributes
ObjV(attrs) == [t |-> "obj", attrs |-> attrs]

\* a callable: "upper" (lambda x: x.upper()), "first" (lambda x: x[0]),
\* "getter" (a bound method returning a string) and "raiser" (a bound method
\* that raises)
FnV(kind) == [t |-> "fn", kind |-> kind]

\* the outcome of an evaluation: a value, or an exception and where it is raised
Ok(v) == [exc |-> "none", site |-> "", val |-> v]

Raise(type, site) == [exc |-> type, site |-> site, val |-> StrV(<<>>)]

LowerLetters == Chars("abcdefghijklmnopqrstuvwxyz")

UpperLetters == Chars("ABCDEFGHIJKLMNOPQRSTUVWXYZ")

UpperChar(c) ==
    IF \E i \in 1..Len(LowerLetters) : LowerLetters[i] = c
    THEN UpperLetters[CHOOSE i \in 1..Len(LowerLetters) : LowerLetters[i] = c]
    ELSE c

\* a sequence of the elements of a set, in some order
RECURSIVE SeqOf(_)
SeqOf(S) ==
    IF S = {} THEN <<>>
    ELSE LET x == CHOOSE y \in S : TRUE IN <<x>> \o SeqOf(S \ {x})

\* bool(v)
Truthy(v) ==
    IF v.t = "str" THEN v.s # <<>>
    ELSE IF v.t \in {"list", "tuple"} THEN v.items # <<>>
    ELSE IF v.t = "dict" THEN DOMAIN v.map # {}
    ELSE TRUE

\* repr(v) and str(v)
RECURSIVE Repr(_)
ReprItems(items) == Join([i \in 1..Len(items) |-> Repr(items[i])], Chars(", "))

Repr(v) ==
    IF v.t = "str" THEN <<"'">> \o v.s \o <<"'">>
    ELSE IF v.t = "list" THEN <<"[">> \o ReprItems(v.items) \o <<"]">>
    ELSE IF v.t = "tuple"
    THEN <<"(">> \o ReprItems(v.items)
               \o (IF Len(v.items) = 1 THEN <<",">> ELSE <<>>) \o <<")">>
    ELSE IF v.t = "dict"
    THEN LET keys == SeqOf(DOMAIN v.map)
         IN  <<"{">> \o Join([i \in 1..Len(keys) |->
                                <<"'">> \o keys[i] \o Chars("': ") \o Repr(v.map[keys[i]])],
                             Chars(", ")) \o <<"}">>
    ELSE IF v.t = "obj" THEN Chars("<object>")
    ELSE Chars("<function>")

ToStr(v) == IF v.t = "str" THEN v.s ELSE Repr(v)

\* iter(v): the elements a for statement binds, or TypeError
IterItems(v) ==
    IF v.t = "str" THEN Ok(ListV([i \in 1..Len(v.s) |-> StrV(<<v.s[i]>>)]))
    ELSE IF v.t \in {"list", "tuple"} THEN Ok(ListV(v.items))
    ELSE IF v.t = "dict"
    THEN LET keys == SeqOf(DOMAIN v.map)
         IN  Ok(ListV([i \in 1..Len(keys) |-> StrV(keys[i])]))
    ELSE Raise("TypeError", "for")

\* value[dot] for a string dot
Subscript(v, dot) ==
    IF v.t = "dict"
    THEN IF dot \in DOMAIN v.map THEN Ok(v.map[dot]) ELSE Raise("KeyError", "dots")
    ELSE Raise("TypeError", "dots")

\* getattr(value, dot); the path names of the model name no method of str,
\* list, tuple, dict or function
GetAttr(v, dot) ==
    IF v.t = "obj" /\ dot \in DOMAIN v.attrs THEN Ok(v.attrs[dot])
    ELSE Raise("AttributeError", "dots")

\* callable(value)
Callable(v) == v.t = "fn"

\* value()
Call0(f) ==
    IF f.kind = "getter" THEN Ok(StrV(Chars("got")))
    ELSE IF f.kind = "raiser" THEN Raise("RuntimeError", "call")
    ELSE Raise("TypeError", "call")

\* c_func(x)
Call1(f, x) ==
    IF f.t # "fn" THEN Raise("TypeError", "filter")
    ELSE IF f.kind = "upper"
    THEN IF x.t = "str" THEN Ok(StrV([i \in 1..Len(x.s) |-> UpperChar(x.s[i])]))
         ELSE Raise("AttributeError", "filter")
    ELSE IF f.kind = "first"
    THEN IF x.t = "str"
         THEN IF x.s = <<>> THEN Raise("IndexError", "filter") ELSE Ok(StrV(<<x.s[1]>>))
         ELSE IF x.t \in {"list", "tuple"}
         THEN IF x.items = <<>> THEN Raise("IndexError", "filter") ELSE Ok(x.items[1])
         ELSE IF x.t = "dict" THEN Raise("KeyError", "filter")
         ELSE Raise("TypeError", "filter")
    ELSE Raise("TypeError", "filter")

(***************************************************************************)
(* Template._do_dots                                                       *)
(***************************************************************************)
\* the exceptions of value[dot] after which getattr is tried
LookupFailures == {"TypeError", "AttributeError", "KeyError", "ValueError", "IndexError"}

\* the loop `for dot in dots`: the final value, or the exception of a step
RECURSIVE DotsLoop(_, _)
DotsLoop(value, dots) ==
    IF dots = <<>> THEN Ok(value)
    ELSE LET sub == Subscript(value, Head(dots))
             got == IF sub.exc \in LookupFailures THEN GetAttr(value, Head(dots)) ELSE sub
         IN  IF got.exc # "none" THEN got
             ELSE IF Callable(got.val)
             THEN LET r == Call0(got.val)
                  IN  IF r.exc # "none" THEN r ELSE DotsLoop(r.val, Tail(dots))
             ELSE DotsLoop(got.val, Tail(dots))

\* "...variable '%s'" % var raises TypeError when var is a tuple that does
\* not hold exactly one element
FormatRaises(var) == var.t = "tuple" /\ Len(var.items) # 1

\* the handler `except Exception`: the message is printed, the value is ""
dots_handler(var) ==
    IF FormatRaises(var) THEN Raise("TypeError", "format") ELSE Ok(StrV(<<>>))

do_dots(var, dots) ==
    LET r == DotsLoop(var, dots)
    IN  IF r.exc = "none" THEN r ELSE dots_handler(var)

(***************************************************************************)
(* Running the generated function: render_function(context, do_dots)       *)
(***************************************************************************)
\* a dict with one more binding
Bind(env, n, v) == [x \in DOMAIN env \cup {n} |-> IF x = n THEN v ELSE env[x]]

\* dict.update
Overlay(base, over) ==
    [x \in DOMAIN base \cup DOMAIN over |-> IF x \in DOMAIN over THEN over[x] ELSE base[x]]

\* the value of a generated expression; env holds the bound locals c_<name>
RECURSIVE Eval(_, _)
Eval(e, env) ==
    IF e.e = "name"
    THEN IF e.id \in DOMAIN env THEN Ok(env[e.id]) ELSE Raise("NameError", "local")
    ELSE IF e.e = "call"
    THEN IF e.func \notin DOMAIN env THEN Raise("NameError", "local")
         ELSE LET a == Eval(e.arg, env)
              IN  IF a.exc # "none" THEN a ELSE Call1(env[e.func], a.val)
    ELSE IF e.e = "dots"
    THEN LET a == Eval(e.base, env)
         IN  IF a.exc # "none" THEN a ELSE do_dots(a.val, e.path)
    ELSE IF e.e = "to_str"
    THEN LET a == Eval(e.arg, env)
         IN  IF a.exc # "none" THEN a ELSE Ok(StrV(ToStr(a.val)))
    ELSE Ok(StrV(e.text))

\* the values of the list of an extend_result([...]) line
RECURSIVE EvalAll(_, _)
EvalAll(es, env) ==
    IF es = <<>> THEN Ok(StrV(<<>>))
    ELSE LET a == Eval(Head(es), env)
         IN  IF a.exc # "none" THEN a
             ELSE LET rest == EvalAll(Tail(es), env)
                  IN  IF rest.exc # "none" THEN rest ELSE Ok(StrV(a.val.s \o rest.val.s))

\* the frame of a call: [ctx, env, out, exc, site]
Fail(st, r) == [st EXCEPT !.exc = r.exc, !.site = r.site]

\* a line that opens no block
ExecSimple(s, st) ==
    IF s.op = "fetch"
    THEN IF s.var \in DOMAIN st.ctx
         THEN [st EXCEPT !.env = Bind(@, s.var, st.ctx[s.var])]
         ELSE Fail(st, Raise("KeyError", "context"))
    ELSE IF s.op = "append"
    THEN LET a == Eval(s.arg, st.env)
         IN  IF a.exc # "none" THEN Fail(st, a) ELSE [st EXCEPT !.out = @ \o a.val.s]
    ELSE IF s.op = "extend"
    THEN LET a == EvalAll(s.args, st.env)
         IN  IF a.exc # "none" THEN Fail(st, a) ELSE [st EXCEPT !.out = @ \o a.val.s]
    ELSE st

\* the first line after line i that is not indented deeper than line i
BlockEnd(src, i) ==
    LET after == {j \in (i + 1)..Len(src) : src[j].indent <= src[i].indent}
    IN  IF after = {} THEN Len(src) + 1 ELSE MinOf(after)

\* the lines i .. j-1 of one block, and the iterations of a for statement
RECURSIVE RunRange(_, _, _, _)
RECURSIVE RunLoop(_, _, _, _, _, _)
RunRange(src, i, j, st) ==
    IF i >= j \/ st.exc # "none" THEN st
    ELSE LET s == src[i].stmt
             e == BlockEnd(src, i)
         IN  IF s.op = "if"
             THEN LET c == Eval(s.cond, st.env)
                  IN  IF c.exc # "none" THEN Fail(st, c)
                      ELSE IF Truthy(c.val)
                      THEN RunRange(src, e, j, RunRange(src, i + 1, e, st))
                      ELSE RunRange(src, e, j, st)
             ELSE IF s.op = "for"
             THEN LET c == Eval(s.iter, st.env)
                      it == IF c.exc # "none" THEN c ELSE IterItems(c.val)
                  IN  IF it.exc # "none" THEN Fail(st, it)
                      ELSE RunRange(src, e, j, RunLoop(src, i, e, s.var, it.val.items, st))
             ELSE RunRange(src, i + 1, j, ExecSimple(s, st))

RunLoop(src, i, e, var, items, st) ==
    IF items = <<>> \/ st.exc # "none" THEN st
    ELSE RunLoop(src, i, e, var, Tail(items),
                 RunRange(src, i + 1, e, [st EXCEPT !.env = Bind(@, var, Head(items))]))

\* render_function(context, do_dots): the string, or the exception raised
Call(src, ctx) ==
    LET st == RunRange(src, 2, Len(src) + 1,
                       [ctx |-> ctx, env |-> <<>>, out |-> <<>>, exc |-> "none", site |-> ""])
    IN  [exc |-> st.exc, site |-> st.site, out |-> IF st.exc = "none" THEN st.out ELSE <<>>]

(***************************************************************************)
(* Template.render                                                         *)
(***************************************************************************)
\* render_context: dict(self.context) updated with the call's context
render_context(base, ctx) == Overlay(base, ctx)

\* render updating self.context itself instead of a copy of it
context_after_render_shared(base, ctx) == Overlay(base, ctx)

\* self.context after a call of render: render works on a copy
context_after_render(base, ctx) == base

render(src, base, ctx) == Call(src, render_context(base, ctx))

(***************************************************************************)
(* Template.__init__                                                       *)
(***************************************************************************)
\* self.context.update(context) for each of the contexts, in order
RECURSIVE MergeAll(_)
MergeAll(cs) ==
    IF cs = <<>> THEN <<>>
    ELSE Overlay(MergeAll(SubSeq(cs, 1, Len(cs) - 1)), cs[Len(cs)])

Setup(name) == [indent |-> INDENT_STEP, stmt |-> [op |-> "setup", name |-> name]]

\* code.code after the lines up to "to_str = str": add_section leaves a
\* place for vars_code
Preamble ==
    << [indent |-> 0, stmt |-> [op |-> "def"]],
       [indent |-> INDENT_STEP, stmt |-> [op |-> "section"]],
       Setup("result"), Setup("append_result"), Setup("extend_result"), Setup("to_str") >>

\* the state when the loop over the tokens starts
InitWith(Templates, CtorContexts) ==
    /\ template \in Templates
    /\ ctor_contexts \in CtorContexts
    /\ context = MergeAll(ctor_contexts)
    /\ all_vars = {}
    /\ loop_vars = {}
    /\ code = Preamble
    /\ vars_code = <<>>
    /\ indent_level = INDENT_STEP
    /\ buffered = <<>>
    /\ ops_stack = <<>>
    /\ tokens = tokenize(template)
    /\ ti = 1
    /\ pc = "parsing"
    /\ error = NoError
    /\ render_function = <<>>
    /\ calls = <<>>

Builder ==
    [code |-> code, indent_level |-> indent_level, buffered |-> buffered,
     ops_stack |-> ops_stack, all_vars |-> all_vars, loop_vars |-> loop_vars,
     error |-> NoError]

SetBuilder(b) ==
    /\ code' = b.code
    /\ indent_level' = b.indent_level
    /\ buffered' = b.buffered
    /\ ops_stack' = b.ops_stack
    /\ all_vars' = b.all_vars
    /\ loop_vars' = b.loop_vars
    /\ error' = b.error

\* one pass of the loop `for token in tokens`
ParseToken ==
    /\ pc = "parsing"
    /\ ti <= Len(tokens)
    /\ LET b == process_token(Builder, tokens[ti])
       IN  /\ SetBuilder(b)
           /\ pc' = IF b.error = NoError THEN "parsing" ELSE "failed"
           /\ ti' = IF b.error = NoError THEN ti + 1 ELSE ti
    /\ UNCHANGED <<template, ctor_contexts, context, vars_code, tokens,
                   render_function, calls>>

\* the section of variables left empty: no name is fetched ahead
FetchLines_none(names) == <<>>

\* vars_code.add_line("c_%s = context[%r]") for the names in the set
FetchLines(names) ==
    LET ns == SeqOf(names)
    IN  [i \in 1..Len(ns) |-> [indent |-> INDENT_STEP, stmt |-> [op |-> "fetch", var |-> ns[i]]]]

\* the end of __init__, after the loop: the unmatched-tag check, the last
\* flush, the return line and the last dedent
finish(b) ==
    IF b.ops_stack # <<>>
    THEN syntax_error(b, "Unmatched action tag", b.ops_stack[Len(b.ops_stack)])
    ELSE dedent(add_line(flush_output(b), [op |-> "return"]))

\* the rest of __init__ once the tokens are consumed: finish, the section of
\* variables, and get_globals (its assertion on the indent level, then exec)
FinishCompile ==
    /\ pc = "parsing"
    /\ ti > Len(tokens)
    /\ LET b == finish(Builder)
           v == FetchLines(b.all_vars \ b.loop_vars)
           src == Source(b.code, v)
           err == IF b.error # NoError THEN b.error
                  ELSE IF b.indent_level # 0
                  THEN [type |-> "AssertionError", msg |-> "", thing |-> <<>>]
                  ELSE exec_error(src)
       IN  /\ SetBuilder([b EXCEPT !.error = err])
           /\ vars_code' = IF b.error = NoError THEN v ELSE vars_code
           /\ pc' = IF err = NoError THEN "ready" ELSE "failed"
           /\ render_function' = IF err = NoError THEN src ELSE render_function
    /\ UNCHANGED <<template, ctor_contexts, context, tokens, ti, calls>>

MaxRenders == 2

\* a call t.render(ctx)
Render(ctx) ==
    /\ pc = "ready"
    /\ Len(calls) < MaxRenders
    /\ calls' = Append(calls, [ctx |-> ctx,
                               rc  |-> render_context(context, ctx),
                               res |-> render(render_function, context, ctx)])
    /\ context' = context_after_render(context, ctx)
    /\ UNCHANGED <<template, ctor_contexts, all_vars, loop_vars, code, vars_code,
                   indent_level, buffered, ops_stack, tokens, ti, pc, error,
                   render_function>>

(***************************************************************************)
(* The templates and contexts of the checks                                *)
(***************************************************************************)
\* the concatenations of at most n pieces
RECURSIVE Concats(_, _)
Concats(Pieces, n) ==
    IF n = 0 THEN {<<>>}
    ELSE LET shorter == Concats(Pieces, n - 1)
         IN  shorter \cup {p \o t : p \in Pieces, t \in shorter}

\* a dict with one key
Entry(name, v) == [x \in {Chars(name)} |-> v]

Text(s) == StrV(Chars(s))

NoContext == <<>>

\* -- block structure: tags, well formed or not --------------------------
MaxTagPieces == 3

TagPieces ==
    {Chars("x"), Chars("{{a}}"), Chars("{{1}}"), Chars("{# c #}"),
     Chars("{% if a %}"), Chars("{% for v in xs %}"), Chars("{% endif %}"),
     Chars("{% endfor %}"), Chars("{% %}"), Chars("{% if %}"), Chars("{% else %}")}

TagContext ==
    Overlay(Entry("a", Text("A")),
            Overlay(Entry("1", Text("one")), Entry("xs", ListV(<<Text("p"), Text("q")>>))))

TagCalls == {NoContext, Entry("a", Text(""))}

Init == InitWith(Concats(TagPieces, MaxTagPieces), {<<TagContext>>})

Next == ParseToken \/ FinishCompile \/ \E c \in TagCalls : Render(c)

Spec == Init /\ [][Next]_vars

(***************************************************************************)
(* Properties of the block structure                                       *)
(***************************************************************************)
IsAction(token) == StartsWith(token, Chars("{%"))

TagWords(token) == SplitWords(Strip(Inner(token)))

\* {% end<kind> %}: one word that starts with "end"
IsEndTag(token) ==
    /\ IsAction(token)
    /\ Len(TagWords(token)) = 1
    /\ StartsWith(TagWords(token)[1], EndWord)

EndKind(token) == SubSeq(TagWords(token)[1], 4, Len(TagWords(token)[1]))

Top(stack) == stack[Len(stack)]

\* the block tags of a token sequence: <<"open", kind>> and <<"close", kind>>
RECURSIVE BlockTags(_)
BlockTags(toks) ==
    IF toks = <<>> THEN <<>>
    ELSE LET t == Head(toks)
             w == TagWords(t)
         IN  (IF IsAction(t) /\ w # <<>> /\ w[1] \in {IfWord, ForWord}
              THEN << <<"open", w[1]>> >>
              ELSE IF IsEndTag(t) THEN << <<"close", EndKind(t)>> >>
              ELSE <<>>) \o BlockTags(Tail(toks))

\* properly nested: cancelling adjacent open/close pairs of one kind leaves nothing
RECURSIVE Cancels(_)
Cancels(tags) ==
    LET pairs == {i \in 1..(Len(tags) - 1) :
                    /\ tags[i][1] = "open"
                    /\ tags[i + 1][1] = "close"
                    /\ tags[i][2] = tags[i + 1][2]}
    IN  IF pairs = {} THEN tags = <<>>
        ELSE LET i == MinOf(pairs)
             IN  Cancels(SubSeq(tags, 1, i - 1) \o SubSeq(tags, i + 2, Len(tags)))

C1_State ==
    /\ pc = "ready" => Cancels(BlockTags(tokens))
    /\ pc = "failed" => render_function = <<>> /\ calls = <<>>
    /\ pc # "ready" => calls = <<>>

C1_Step ==
    pc = "parsing" =>
        /\ (ti <= Len(tokens) /\ IsEndTag(tokens[ti]) /\ ops_stack = <<>>)
              => /\ pc' = "failed"
                 /\ error'.type = "TemplateSyntaxError"
                 /\ error'.msg = "Too many ends"
        /\ (ti <= Len(tokens) /\ IsEndTag(tokens[ti]) /\ ops_stack # <<>>
               /\ Top(ops_stack) # EndKind(tokens[ti]))
              => /\ pc' = "failed"
                 /\ error'.type = "TemplateSyntaxError"
                 /\ error'.msg = "Mismatched end tag"
        /\ (ti > Len(tokens) /\ ops_stack # <<>>)
              => /\ pc' = "failed"
                 /\ error'.type = "TemplateSyntaxError"
                 /\ error'.msg = "Unmatched action tag"
                 /\ error'.thing = Top(ops_stack)
        /\ pc' = "ready" => ops_stack = <<>>

\* C1: construction succeeds only for properly nested and balanced tags.  An
\* end tag met with an empty open-block stack raises TemplateSyntaxError "Too
\* many ends", an end tag of another kind than the top of the stack raises
\* "Mismatched end tag", a stack that is not empty after the last token raises
\* "Unmatched action tag" naming the innermost open kind; after a failure
\* there is no render function and nothing is ever rendered.
C1_Nesting == [](C1_State) /\ [][C1_Step]_vars

\* C1's case: an end tag that closes the wrong kind of block has failed
C1_Witness ==
    /\ pc = "failed"
    /\ error.msg = "Mismatched end tag"
    /\ IsEndTag(tokens[ti])
    /\ render_function = <<>>

\* C8: every malformed action tag, with zero or more words, makes the
\* construction fail with a TemplateSyntaxError and no other kind of error.
C8_MalformedTagError ==
    (pc = "failed" /\ ti <= Len(tokens) /\ IsAction(tokens[ti]))
        => error.type = "TemplateSyntaxError"

Digits == Range(Chars("0123456789"))

\* a syntactically valid identifier
IsIdentifier(n) ==
    /\ n # <<>>
    /\ Range(n) \subseteq IdentChars
    /\ n[1] \notin Digits

\* C9: no template with a variable, filter or loop-variable name that is not
\* a valid identifier compiles successfully.
C9_ValidNames ==
    pc = "ready" => \A n \in all_vars \cup loop_vars : IsIdentifier(n)

\* C10: a template whose action tags are all well formed, nested and balanced
\* and whose names are all valid identifiers constructs without error, also
\* when the body of a block emits nothing.
C10_WellFormedConstructs ==
    (ti > Len(tokens) /\ ops_stack = <<>>
       /\ \A n \in all_vars \cup loop_vars : IsIdentifier(n))
        => pc # "failed"

(***************************************************************************)
(* Expressions and contexts                                                *)
(***************************************************************************)
MaxEvalPieces == 3

EvalPieces ==
    {Chars("{{a}}"), Chars("{{ b|f }}"), Chars("{{d.k}}"),
     Chars("{% if a %}"), Chars("{% endif %}")}

EvalBase ==
    Overlay(Entry("a", Text("ab")),
    Overlay(Entry("b", Text("b")),
    Overlay(Entry("f", FnV("upper")),
            Entry("d", DictV(Entry("k", Text("v")))))))

EvalOver ==
    Overlay(Entry("a", Text("")), Entry("d", ObjV(Entry("k", FnV("getter")))))

EvalCalls ==
    {NoContext,
     Entry("d", TupleV(<<Text("1"), Text("2")>>)),
     Entry("a", Text("")),
     Overlay(Entry("d", ObjV(Entry("k", FnV("raiser")))),
             Overlay(Entry("f", FnV("first")), Entry("b", Text(""))))}

InitEval ==
    InitWith(Concats(EvalPieces, MaxEvalPieces), {<<>>, <<EvalBase>>, <<EvalBase, EvalOver>>})

NextEval == ParseToken \/ FinishCompile \/ \E c \in EvalCalls : Render(c)

SpecEval == InitEval /\ [][NextEval]_vars

\* C5: a failure while resolving a dotted chain never propagates out of
\* render; only the failure to find the root variable of the chain does.
C5_DotsNeverPropagate ==
    \A i \in DOMAIN calls : calls[i].res.site \notin {"dots", "call", "format"}

\* the constructor's mappings merged in order, the later overriding the earlier
LastWith(k) == MaxOf({i \in DOMAIN ctor_contexts : k \in DOMAIN ctor_contexts[i]})

BaselineKeys == UNION {DOMAIN ctor_contexts[i] : i \in DOMAIN ctor_contexts}

C7_State ==
    /\ DOMAIN context = BaselineKeys
    /\ \A k \in BaselineKeys : context[k] = ctor_contexts[LastWith(k)][k]
    /\ \A i \in DOMAIN calls :
          LET c == calls[i]
          IN  /\ DOMAIN c.rc = BaselineKeys \cup DOMAIN c.ctx
              /\ \A k \in DOMAIN c.ctx : c.rc[k] = c.ctx[k]
              /\ \A k \in BaselineKeys \ DOMAIN c.ctx :
                    c.rc[k] = ctor_contexts[LastWith(k)][k]
    /\ \A i, j \in DOMAIN calls :
          calls[i].ctx = calls[j].ctx => calls[i].res = calls[j].res

C7_Step ==
    pc = "ready" => /\ context' = context
                    /\ render_function' = render_function
                    /\ pc' = "ready"

\* C7: rendering leaves the Template unchanged.  After any render calls the
\* baseline context is still the constructor's mappings merged in order and
\* the compiled program is the same; every call works on the baseline
\* overlaid with its own context, the call's value winning on a shared key;
\* an override of one call does not reach a later call, and two calls with
\* the same context return the same result.
C7_Stateless == [](C7_State) /\ [][C7_Step]_vars

\* C7's case: a call that overrides a baseline key, then a call with no
\* context that renders the baseline value again
C7_Witness ==
    /\ Len(calls) = 2
    /\ \E k \in DOMAIN calls[1].ctx \cap BaselineKeys : calls[1].ctx[k] # context[k]
    /\ calls[2].ctx = NoContext
    /\ calls[1].res.exc = "none"
    /\ calls[2].res.exc = "none"
    /\ calls[1].res # calls[2].res

(***************************************************************************)
(* Variables missing from the context                                      *)
(***************************************************************************)
MaxLookupPieces == 3

LookupPieces ==
    {Chars("{{ b|f }}"), Chars("{{v}}"), Chars("{% if a %}"), Chars("{% endif %}"),
     Chars("{% for v in xs %}"), Chars("{% endfor %}")}

LookupBase ==
    Overlay(Entry("a", Text("")),
            Overlay(Entry("xs", ListV(<<>>)), Entry("f", FnV("upper"))))

LookupCalls ==
    {NoContext,
     Entry("b", Text("b")),
     Overlay(Entry("a", Text("1")),
             Overlay(Entry("xs", ListV(<<Text("p")>>)), Entry("v", Text("V"))))}

InitLookup == InitWith(Concats(LookupPieces, MaxLookupPieces), {<<>>, <<LookupBase>>})

NextLookup == ParseToken \/ FinishCompile \/ \E c \in LookupCalls : Render(c)

SpecLookup == InitLookup /\ [][NextLookup]_vars

\* the names a call cannot find: referenced, bound by no for tag, and absent
\* from the merged context
Missing(c) == (all_vars \ loop_vars) \ DOMAIN c.rc

\* C3: a render call raises the KeyError of a context lookup, and returns no
\* string, exactly when some variable or filter name that the template
\* references and no for tag binds is absent from the merged context,
\* wherever the reference sits.
C3_LookupError ==
    \A i \in DOMAIN calls :
        LET c == calls[i]
        IN  IF Missing(c) # {}
            THEN c.res.exc = "KeyError" /\ c.res.site = "context" /\ c.res.out = <<>>
            ELSE ~(c.res.exc = "KeyError" /\ c.res.site = "context")

\* C3's case: the only reference to the missing name is in the body of an if
\* whose condition is falsy, and the call raises
C3_Witness ==
    /\ template = Chars("{% if a %}{{ b|f }}{% endif %}")
    /\ Len(calls) = 1
    /\ Chars("a") \in DOMAIN calls[1].rc
    /\ ~Truthy(calls[1].rc[Chars("a")])
    /\ Chars("b") \notin DOMAIN calls[1].rc
    /\ calls[1].res.exc = "KeyError"

(***************************************************************************)
(* One for loop: P {% for v in xs %} B {% endfor %} S                      *)
(***************************************************************************)
MaxPart == 1

LoopFor == Chars("{% for v in xs %}")

LoopEnd == Chars("{% endfor %}")

OuterPieces == {Chars("x"), Chars("{{a}}"), Chars("{{v}}")}

BodyPieces == {Chars("y"), Chars("{{a}}"), Chars("{{v}}")}

LoopTemplates ==
    {P \o LoopFor \o B \o LoopEnd \o S :
        P \in Concats(OuterPieces, MaxPart),
        B \in Concats(BodyPieces, MaxPart),
        S \in Concats(OuterPieces, MaxPart)}

LoopBase ==
    Overlay(Entry("a", Text("A")),
            Overlay(Entry("v", Text("V")), Entry("xs", ListV(<<Text("1"), Text("2")>>))))

LoopCalls == {NoContext, Entry("xs", ListV(<<>>)), Entry("xs", Text("pq"))}

InitLoop == InitWith(LoopTemplates, {<<LoopBase>>})

NextLoop == ParseToken \/ FinishCompile \/ \E c \in LoopCalls : Render(c)

SpecLoop == InitLoop /\ [][NextLoop]_vars

\* the positions of the for tag and of its end tag among the tokens
ForAt == CHOOSE i \in DOMAIN tokens : tokens[i] = LoopFor

EndAt == CHOOSE i \in DOMAIN tokens : tokens[i] = LoopEnd

PartP == SubSeq(tokens, 1, ForAt - 1)

PartB == SubSeq(tokens, ForAt + 1, EndAt - 1)

PartS == SubSeq(tokens, EndAt + 1, Len(tokens))

\* what a text or {{name}} token renders to when the names have the values of scope
TokenText(tok, scope) ==
    IF StartsWith(tok, Chars("{{")) THEN ToStr(scope[Strip(Inner(tok))]) ELSE tok

RECURSIVE PartText(_, _)
PartText(part, scope) ==
    IF part = <<>> THEN <<>>
    ELSE TokenText(Head(part), scope) \o PartText(Tail(part), scope)

\* the body once per element, in order, with v bound to the element
RECURSIVE BodyText(_, _)
BodyText(items, scope) ==
    IF items = <<>> THEN <<>>
    ELSE PartText(PartB, Bind(scope, Chars("v"), Head(items)))
           \o BodyText(Tail(items), scope)

Elements(rc) == IterItems(rc[Chars("xs")]).val.items

\* the scopes in which S may be rendered: the context, or the context with v
\* bound to an element of xs
ScopesOf(rc) ==
    {rc} \cup {Bind(rc, Chars("v"), Elements(rc)[i]) : i \in DOMAIN Elements(rc)}

C4_LoopScope ==
    \A i \in DOMAIN calls :
        LET c == calls[i]
        IN  /\ c.res.exc = "none"
            /\ c.res.out = PartText(PartP, c.rc) \o BodyText(Elements(c.rc), c.rc)
                             \o PartText(PartS, c.rc)

(***************************************************************************)
(* Texts without a tag                                                     *)
(***************************************************************************)
MaxTextLen == 4

Alphabet == {"{", "}", "#", "a"}

RECURSIVE Strings(_)
Strings(n) ==
    IF n = 0 THEN {<<>>}
    ELSE Strings(n - 1) \cup {Append(t, ch) : t \in Strings(n - 1), ch \in Alphabet}

InitText == InitWith(Strings(MaxTextLen), {<<>>})

NextText == ParseToken \/ FinishCompile \/ \E c \in {NoContext, Entry("a", Text("A"))} : Render(c)

SpecText == InitText /\ [][NextText]_vars

\* a complete {{...}}, {%...%} or {#...#} segment
HasTag(t) ==
    \E i, j \in DOMAIN t :
        /\ j >= i + 2
        /\ j + 1 <= Len(t)
        /\ t[i] = "{"
        /\ \/ t[i + 1] = "{" /\ t[j] = "}"
           \/ t[i + 1] = "%" /\ t[j] = "%"
           \/ t[i + 1] = "#" /\ t[j] = "#"
        /\ t[j + 1] = "}"

\* C2: the identity law: a text that holds no complete tag is constructed
\* without error and every render returns it unchanged, whatever its
\* characters and whatever the context.
C2_Identity ==
    ~HasTag(template) =>
        /\ pc # "failed"
        /\ \A i \in DOMAIN calls :
              calls[i].res.exc = "none" /\ calls[i].res.out = template

====
